---- MODULE Spec2Model ----
(***************************************************************************)
(* Model of pyTektronix, src/oscilloscope.py: the WaveformCollection       *)
(* container and its merge, the HTTP export parser parse_response, and the *)
(* two acquisition paths of Oscilloscope.get_data (VISA and HTTP).         *)
(*                                                                         *)
(* Python values are modelled as follows.                                  *)
(*   - a dict is a function; its key order is not modelled, so `sources`   *)
(*     is the set of keys of _data;                                        *)
(*   - a text is a sequence of pieces; the pieces "," and " " are the      *)
(*     separator and the whitespace, every other piece is a run of         *)
(*     characters holding neither; Text(s) is the Python str;              *)
(*   - a float is an integer (the calibration and the raw samples of the   *)
(*     model are integral);                                                *)
(*   - None and a raised exception are tagged records.                     *)
(***************************************************************************)
EXTENDS Integers, Sequences, FiniteSets, TLC

VARIABLES
    \* ---- Oscilloscope.get_data --------------------------------------
    use_serial,   \* Oscilloscope.use_serial, fixed at construction
    channels,     \* the `channels` argument of get_data
    pc,           \* position of the call: "idle", "visa", "http", "returned", "raised"
    idx,          \* number of channels the for loop has consumed
    inst,         \* the instrument behind self.scope: what it answers
    scope,        \* instrument settings written through self.scope.write
    wf,           \* get_data_visa: the collection under construction
    data,         \* get_data_http: the running result (None or a collection)
    result,       \* the value get_data returned
    raised,       \* the exception get_data raised ("" when none)
    yielded,      \* the triples _get_data_visa has yielded so far
    idnQueries,   \* number of "*IDN?" queries of the call
    binQuery,     \* arguments of the last query_binary_values call
    requests,     \* the POST data sent by make_request, in order
    parseCalls,   \* the arguments parse_response was called with, in order
    \* ---- WaveformCollection.__add__ -----------------------------------
    a, b, c,      \* three collections, as they are before the expression
    op,           \* the expression evaluated: "", "a+b", "b+a", "(a+b)+c", "a+(b+c)"
    res,          \* its outcome: the exception raised and the collection returned
    \* ---- Oscilloscope.parse_response ----------------------------------
    data_string,  \* the lines of the StringIO
    pos,          \* number of readline() calls made (past the end they return "")
    iter,         \* iterations of `for _ in range(21)` begun
    header,       \* the local dict `header`
    stopLine,     \* number of the line the loop broke at (0: no break)
    labelLine,    \* number of the line read as the column-label row (0: not yet)
    ppc,          \* "preamble", "label", "table", "done", "raised"
    parsed        \* the outcome of parse_response

acqVars == <<use_serial, channels, pc, idx, inst, scope, wf, data, result,
             raised, yielded, idnQueries, binQuery, requests, parseCalls>>
mergeVars == <<a, b, c, op, res>>
parseVars == <<data_string, pos, iter, header, stopLine, labelLine, ppc, parsed>>
vars == <<acqVars, mergeVars, parseVars>>

(***************************************************************************)
(* Bounds of the model.                                                    *)
(***************************************************************************)
MaxChannels == 3     \* longest channel list given to get_data
MaxFill == 22        \* longest run of one repeated line opening an export body
MaxMid == 2          \* lines between that run and the end of the body

(***************************************************************************)
(* Python dict and None.                                                   *)
(***************************************************************************)
EmptyDict == [k \in {} |-> 0]

DictSet(d, k, v) == [x \in (DOMAIN d) \cup {k} |-> IF x = k THEN v ELSE d[x]]

\* dict.update: the keys of both, other's value on a shared key
DictUpdate(d, other) ==
    [x \in (DOMAIN d) \cup (DOMAIN other) |-> IF x \in DOMAIN other THEN other[x] ELSE d[x]]

None == [type |-> "NoneType"]

(***************************************************************************)
(* class WaveformCollection                                                *)
(***************************************************************************)
WaveformCollection ==
    [type |-> "WaveformCollection", idn |-> "", data |-> EmptyDict, header |-> EmptyDict]

Sources(w) == DOMAIN w.data

\* __setitem__: the key "header" replaces the header, any other key is a channel
SetItem(w, key, value) ==
    IF key = "header"
    THEN [w EXCEPT !.header = value]
    ELSE [w EXCEPT !.data = DictSet(w.data, key, value)]

\* the update with the operands exchanged: self's value stays on a shared key
UpdateHeaderKeepSelf(self, other) ==
    [self EXCEPT !.header = DictUpdate(other.header, self.header)]

\* __add__, line 230: self._header.update(other.header())
UpdateHeader(self, other) ==
    [self EXCEPT !.header = DictUpdate(self.header, other.header)]

\* __add__, lines 231-232: for name in other.sources: self[name] = other[name]
RECURSIVE CopyNames(_, _, _)
CopyNames(self, other, names) ==
    IF names = {}
    THEN self
    ELSE LET name == CHOOSE n \in names : TRUE
         IN  CopyNames(SetItem(self, name, other.data[name]), other, names \ {name})

\* the loop run over the names self already holds
CopySourcesShared(self, other) == CopyNames(self, other, Sources(other) \cap Sources(self))

CopySources(self, other) == CopyNames(self, other, Sources(other))

\* the idn test of __add__, line 229
Compatible(self, other) == self.idn = other.idn

\* __add__: the exception raised ("" when none) and the object returned, which is
\* self, updated in place
Add(self, other) ==
    IF Compatible(self, other)
    THEN [exc |-> "", val |-> CopySources(UpdateHeader(self, other), other)]
    ELSE [exc |-> "AttributeError", val |-> None]

(***************************************************************************)
(* Text: str.strip, str.split(","), float(), StringIO.readline.            *)
(***************************************************************************)
RECURSIVE LStrip(_)
LStrip(s) == IF s # <<>> /\ Head(s) = " " THEN LStrip(Tail(s)) ELSE s

RECURSIVE RStrip(_)
RStrip(s) == IF s # <<>> /\ s[Len(s)] = " " THEN RStrip(SubSeq(s, 1, Len(s) - 1)) ELSE s

Strip(s) == RStrip(LStrip(s))

\* str.split(","): the fields between the commas; a text without comma is one field
RECURSIVE Split(_)
Split(s) ==
    IF \E i \in 1..Len(s) : s[i] = ","
    THEN LET i == CHOOSE j \in 1..Len(s) : s[j] = "," /\ \A k \in 1..(j - 1) : s[k] # ","
         IN  <<SubSeq(s, 1, i - 1)>> \o Split(SubSeq(s, i + 1, Len(s)))
    ELSE <<s>>

\* the Python str of a sequence of pieces
RECURSIVE Text(_)
Text(s) == IF s = <<>> THEN "" ELSE Head(s) \o Text(Tail(s))

\* line.strip().split(","), as a list of str
Words(line) == LET fields == Split(Strip(line)) IN [i \in 1..Len(fields) |-> Text(fields[i])]

\* the numeric literals of the model and float() on them
Literals == (0 - 99)..99

IsNumeric(w) == \E n \in Literals : ToString(n) = w

ParseFloat(w) == CHOOSE n \in Literals : ToString(n) = w

\* StringIO.readline(): the next line, or the empty text at the end of the stream
Readline(stream, p) == IF p < Len(stream) THEN stream[p + 1] ELSE <<>>

(***************************************************************************)
(* Oscilloscope.parse_response                                             *)
(***************************************************************************)
\* range(21), line 100
MaxPreambleLines == 21

\* the locals of parse_response before the loop: nothing read, header = {}
ParseStart ==
    [pos |-> 0, iter |-> 0, header |-> EmptyDict, stopLine |-> 0, labelLine |-> 0]

\* lines 103-104: the sentinel test
IsSentinel(words) == words[1] = "Label"

\* lines 105-106: the test of a key,value line
IsPair(words) == Len(words) = 2 /\ words[1] # ""

\* the loop without its break
LoopNoBreak(st) == st.iter = MaxPreambleLines

\* the loop of lines 100-106 is over: it broke, or range(21) is exhausted
LoopOver(st) == st.stopLine # 0 \/ st.iter = MaxPreambleLines

\* one iteration of the loop, lines 101-106
PreambleStep(stream, st) ==
    LET words == Words(Readline(stream, st.pos))
        read == [st EXCEPT !.pos = st.pos + 1, !.iter = st.iter + 1]
    IN  IF IsSentinel(words)
        THEN [read EXCEPT !.stopLine = st.pos + 1]
        ELSE IF IsPair(words)
             THEN [read EXCEPT !.header = DictSet(st.header, words[1], words[2])]
             ELSE read

\* line 107: header["label"] = data_string.readline().strip().split(",")
LabelStep(stream, st) ==
    [st EXCEPT !.pos = st.pos + 1,
               !.labelLine = st.pos + 1,
               !.header = DictSet(st.header, "label", Words(Readline(stream, st.pos)))]

\* np.genfromtxt(data_string, delimiter=",", dtype=None) on the lines left: blank
\* lines are skipped; rows of unequal length raise ValueError; the array is
\* two-dimensional only with at least two rows and two columns that are all numeric
\* or all text (columns of mixed type make a one-dimensional structured array)
GenFromTxt(stream, p) ==
    LET rest == SubSeq(stream, p + 1, Len(stream))
        nonblank == SelectSeq(rest, LAMBDA l : Strip(l) # <<>>)
        rows == [i \in 1..Len(nonblank) |-> Words(nonblank[i])]
        ncols == IF rows = <<>> THEN 0 ELSE Len(rows[1])
        numeric(j) == \A i \in 1..Len(rows) : IsNumeric(rows[i][j])
        cell(w) == IF IsNumeric(w) THEN ParseFloat(w) ELSE w
    IN  IF \E i \in 1..Len(rows) : Len(rows[i]) # ncols
        THEN [exc |-> "ValueError", ndim |-> 0, ncols |-> 0, rows |-> <<>>]
        ELSE [exc |-> "",
              ndim |-> IF /\ Len(rows) >= 2
                          /\ ncols >= 2
                          /\ \A j \in 1..ncols : numeric(j) <=> numeric(1)
                       THEN 2 ELSE 1,
              ncols |-> ncols,
              rows |-> [i \in 1..Len(rows) |-> [j \in 1..ncols |-> cell(rows[i][j])]]]

\* values[:, i].tolist(), i counted from 1
Column(values, i) == [r \in 1..Len(values.rows) |-> values.rows[r][i]]

\* lines 111-112: for i, label in enumerate(header["label"]): wf[label] = values[:, i]
RECURSIVE AssignColumns(_, _, _, _)
AssignColumns(w, labels, values, i) ==
    IF i > Len(labels)
    THEN w
    ELSE AssignColumns(SetItem(w, labels[i], Column(values, i)), labels, values, i + 1)

\* lines 108-113: the exception raised ("" when none) and the collection returned
TableStep(stream, st) ==
    LET values == GenFromTxt(stream, st.pos)
        labels == st.header["label"]
        w == SetItem(WaveformCollection, "header", st.header)
    IN  IF values.exc # ""
        THEN [exc |-> values.exc, val |-> None]
        ELSE IF values.ndim # 2 \/ Len(labels) > values.ncols
             THEN [exc |-> "IndexError", val |-> None]
             ELSE [exc |-> "", val |-> AssignColumns(w, labels, values, 1)]

RECURSIVE Preamble(_, _)
Preamble(stream, st) ==
    IF LoopOver(st) THEN st ELSE Preamble(stream, PreambleStep(stream, st))

\* parse_response(data_string) as a whole; StringIO(None) is the empty stream
ParseResponse(text) ==
    LET stream == IF text = None THEN <<>> ELSE text.lines
    IN  TableStep(stream, LabelStep(stream, Preamble(stream, ParseStart)))

(***************************************************************************)
(* The three parts of the program are exercised by three specifications.   *)
(* A specification leaves the variables of the other parts at rest.        *)
(***************************************************************************)
NoOutcome == [exc |-> "", val |-> None]

MergeIdle ==
    /\ a = WaveformCollection
    /\ b = WaveformCollection
    /\ c = WaveformCollection
    /\ op = ""
    /\ res = NoOutcome

ParseIdle ==
    /\ data_string = <<>>
    /\ pos = 0
    /\ iter = 0
    /\ header = EmptyDict
    /\ stopLine = 0
    /\ labelLine = 0
    /\ ppc = "idle"
    /\ parsed = NoOutcome

(***************************************************************************)
(* SpecMerge: a + b, b + a, (a + b) + x and a + (b + x) on collections     *)
(* that __setitem__ and the idn attribute can build.                       *)
(***************************************************************************)
Idns == {"", "TEKTRONIX,MDO3024"}
HeaderKeys == {"YMULT", "YOFF"}
HeaderValues == {"1", "2"}
Names == {"CH1", "CH2"}
Datasets == {<<>>, <<5>>}

Dicts(K, V) == UNION {[S -> V] : S \in SUBSET K}

Collections ==
    {[type |-> "WaveformCollection", idn |-> i, data |-> d, header |-> h] :
        i \in Idns, d \in Dicts(Names, Datasets), h \in Dicts(HeaderKeys, HeaderValues)}

\* the third operand of the three-operand expressions carries no header entries,
\* and they are evaluated on operands without header entries
HeaderFree == {x \in Collections : x.header = EmptyDict}

\* x + y + z, which Python evaluates as (x + y) + z
AddLeft(x, y, z) ==
    LET s == Add(x, y) IN IF s.exc # "" THEN s ELSE Add(s.val, z)

\* x + (y + z)
AddRight(x, y, z) ==
    LET s == Add(y, z) IN IF s.exc # "" THEN s ELSE Add(x, s.val)

InitMerge ==
    /\ a \in Collections
    /\ b \in Collections
    /\ c = WaveformCollection
    /\ op = ""
    /\ res = NoOutcome

EvalAB ==
    /\ op = ""
    /\ op' = "a+b"
    /\ res' = Add(a, b)
    /\ UNCHANGED <<a, b, c>>
    /\ UNCHANGED <<acqVars, parseVars>>

EvalBA ==
    /\ op = ""
    /\ op' = "b+a"
    /\ res' = Add(b, a)
    /\ UNCHANGED <<a, b, c>>
    /\ UNCHANGED <<acqVars, parseVars>>

EvalLeft ==
    /\ op = ""
    /\ a \in HeaderFree /\ b \in HeaderFree
    /\ \E x \in HeaderFree :
          /\ c' = x
          /\ op' = "(a+b)+c"
          /\ res' = AddLeft(a, b, x)
    /\ UNCHANGED <<a, b>>
    /\ UNCHANGED <<acqVars, parseVars>>

EvalRight ==
    /\ op = ""
    /\ a \in HeaderFree /\ b \in HeaderFree
    /\ \E x \in HeaderFree :
          /\ c' = x
          /\ op' = "a+(b+c)"
          /\ res' = AddRight(a, b, x)
    /\ UNCHANGED <<a, b>>
    /\ UNCHANGED <<acqVars, parseVars>>

(***************************************************************************)
(* SpecParse: parse_response, one action per readline of the preamble      *)
(* loop, one for the label row, one for the table.                         *)
(***************************************************************************)
FillLines ==
    { <<"Model", ",", "MDO">>,
      <<>>,
      <<"a", ",", "b", ",", "c">>,
      <<" ", "Gain", ",", "2", " ">> }

MidLines ==
    { <<"Label", ",">>,
      <<" ", "Label", " ">>,
      <<",", "V">>,
      <<"label", ",", "z">> }

Tables ==
    { <<>>,
      << <<"TIME", ",", "CH1">>, <<"1", ",", "10">>, <<"2", ",", "20">> >> }

Repeat(line, n) == [i \in 1..n |-> line]

SeqsUpTo(S, n) == UNION {[1..k -> S] : k \in 0..n}

\* the lengths of the opening run: short ones, and those around the 21 lines of the loop
FillLengths == {n \in 0..MaxFill : n <= 2 \/ n >= MaxPreambleLines - 2}

ExportBodies ==
    {Repeat(f, n) \o m \o t :
        f \in FillLines, n \in FillLengths, m \in SeqsUpTo(MidLines, MaxMid), t \in Tables}

ParseState ==
    [pos |-> pos, iter |-> iter, header |-> header,
     stopLine |-> stopLine, labelLine |-> labelLine]

SetParseState(st) ==
    /\ pos' = st.pos
    /\ iter' = st.iter
    /\ header' = st.header
    /\ stopLine' = st.stopLine
    /\ labelLine' = st.labelLine

InitParse ==
    /\ data_string \in ExportBodies
    /\ pos = 0
    /\ iter = 0
    /\ header = EmptyDict
    /\ stopLine = 0
    /\ labelLine = 0
    /\ ppc = "preamble"
    /\ parsed = NoOutcome

ReadPreambleLine ==
    /\ ppc = "preamble"
    /\ ~LoopOver(ParseState)
    /\ SetParseState(PreambleStep(data_string, ParseState))
    /\ UNCHANGED <<data_string, ppc, parsed>>
    /\ UNCHANGED <<acqVars, mergeVars>>

ReadLabelRow ==
    /\ ppc = "preamble"
    /\ LoopOver(ParseState)
    /\ SetParseState(LabelStep(data_string, ParseState))
    /\ ppc' = "table"
    /\ UNCHANGED <<data_string, parsed>>
    /\ UNCHANGED <<acqVars, mergeVars>>

ReadTable ==
    /\ ppc = "table"
    /\ parsed' = TableStep(data_string, ParseState)
    /\ ppc' = IF parsed'.exc = "" THEN "done" ELSE "raised"
    /\ UNCHANGED <<data_string, pos, iter, header, stopLine, labelLine>>
    /\ UNCHANGED <<acqVars, mergeVars>>

(***************************************************************************)
(* The instrument: what self.scope answers (VISA) and what the web server  *)
(* of the instrument answers (HTTP).                                       *)
(***************************************************************************)
Encodings == {"ASCII", "BINARY", "BIN"}
Widths == {"1", "2", "4", "8", "3"}
Codes == {"RI", "RP", "FP", "XX"}
Orders == {"MSB", "LSB"}

\* the WFMOUTPRE settings; they are shared by all channels
Formats ==
    {[encdg |-> e, byt_nr |-> w, bn_fmt |-> f, byt_or |-> o] :
        e \in {"BINARY"}, w \in Widths, f \in Codes, o \in Orders}
    \cup {[encdg |-> e, byt_nr |-> "1", bn_fmt |-> "RI", byt_or |-> "MSB"] :
            e \in Encodings \ {"BINARY"}}

Calibrations ==
    { [ymult |-> 2, yoff |-> 10, yzero |-> 1],
      [ymult |-> 3, yoff |-> 0 - 4, yzero |-> 0] }

\* the raw curve of a channel: the record holds at least two points
RawCurves == { <<10, 20, 30>>, <<30, 0>> }

Instruments ==
    {[idn |-> "TEKTRONIX,MDO3024", enabled |-> en, format |-> f, calib |-> k, raw |-> r] :
        en \in [Names -> BOOLEAN], f \in Formats, k \in Calibrations,
        r \in [Names -> RawCurves]}

\* the instruments used over HTTP, where the VISA settings play no part
HttpInstruments ==
    {i \in Instruments :
        /\ i.format.encdg = "ASCII"
        /\ i.calib.ymult = 2
        /\ \A n \in Names : i.enabled[n]}

Min(x, y) == IF x <= y THEN x ELSE y

\* "horizontal:recordlength?"
RecordLength(i) == LET n == CHOOSE m \in Names : \A k \in Names : Len(i.raw[m]) >= Len(i.raw[k])
                   IN  Len(i.raw[n])

\* the points data:start .. data:stop of the selected source
Window(i, sc) == SubSeq(i.raw[sc.source], sc.start, Min(sc.stop, Len(i.raw[sc.source])))

\* the answer to "wfmoutpre?" with the prefix ":WFMOUTPRE:" removed: segments
\* separated by ";", each a list of words separated by " "
HeaderReply(i, source) ==
    << <<"BYT_NR", i.format.byt_nr>>,
       <<"ENCDG", i.format.encdg>>,
       <<"BN_FMT", i.format.bn_fmt>>,
       <<"BYT_OR", i.format.byt_or>>,
       <<"WFID", source, "DC", "coupling">>,
       <<"YMULT", ToString(i.calib.ymult)>>,
       <<"YOFF", ToString(i.calib.yoff)>>,
       <<"YZERO", ToString(i.calib.yzero)>> >>

\* the answer to "select:<source>?"
SelectReply(i, source) == IF i.enabled[source] THEN "1" ELSE "0"

\* the answer to "curve?" in ASCII encoding: the points joined by ","
RECURSIVE CurveText(_)
CurveText(points) ==
    IF points = <<>> THEN <<>>
    ELSE IF Len(points) = 1 THEN <<ToString(points[1])>>
         ELSE <<ToString(points[1]), ",">> \o CurveText(Tail(points))

(***************************************************************************)
(* Oscilloscope._get_header and the decoding of _get_data_visa             *)
(***************************************************************************)
\* line 138: {x.split(" ")[0]: x.split(" ")[1] for x in result_string.split(";")};
\* a later segment with the same key replaces an earlier one
GetHeader(reply) ==
    [k \in {reply[i][1] : i \in 1..Len(reply)} |->
        LET last == CHOOSE i \in 1..Len(reply) :
                        /\ reply[i][1] = k
                        /\ \A j \in (i + 1)..Len(reply) : reply[j][1] # k
        IN  reply[last][2]]

FORMATTER_LOOKUP ==
    ("1" :> [RI |-> "b", RP |-> "B"]) @@
    ("2" :> [RI |-> "h", RP |-> "H"]) @@
    ("4" :> [RI |-> "i", RP |-> "I", FP |-> "f"]) @@
    ("8" :> [RI |-> "q", RP |-> "Q", FP |-> "d"])

\* a lookup that falls back on a default format instead of raising
FormatLookupDefault(byt_nr, bn_fmt) ==
    IF byt_nr \in DOMAIN FORMATTER_LOOKUP /\ bn_fmt \in DOMAIN FORMATTER_LOOKUP[byt_nr]
    THEN [exc |-> "", fmt |-> FORMATTER_LOOKUP[byt_nr][bn_fmt]]
    ELSE [exc |-> "", fmt |-> "b"]

\* line 169: FORMATTER_LOOKUP[header["BYT_NR"]][header["BN_FMT"]], a KeyError when
\* either key is missing
FormatLookup(byt_nr, bn_fmt) ==
    IF byt_nr \in DOMAIN FORMATTER_LOOKUP /\ bn_fmt \in DOMAIN FORMATTER_LOOKUP[byt_nr]
    THEN [exc |-> "", fmt |-> FORMATTER_LOOKUP[byt_nr][bn_fmt]]
    ELSE [exc |-> "KeyError", fmt |-> ""]

\* line 170
IsBigEndian(h) == h["BYT_OR"] = "MSB"

\* the offset subtracted after the multiplication
ScaleOffsetLate(entry, y_offset, y_mult, y_zero) == ((entry * y_mult) - y_offset) + y_zero

\* lines 165 and 174: ((entry - y_offset) * y_mult) + y_zero
Scale(entry, y_offset, y_mult, y_zero) == ((entry - y_offset) * y_mult) + y_zero

\* lines 158-160 and 163-167: the ASCII decode path
DecodeAscii(h, read_string) ==
    LET y_mult == ParseFloat(h["YMULT"])
        y_offset == ParseFloat(h["YOFF"])
        y_zero == ParseFloat(h["YZERO"])
        entries == Split(read_string)
    IN  [k \in 1..Len(entries) |-> Scale(ParseFloat(Text(entries[k])), y_offset, y_mult, y_zero)]

\* lines 158-160 and 174: the BINARY decode path, on the values query_binary_values
\* unpacked
DecodeBinary(h, values) ==
    LET y_mult == ParseFloat(h["YMULT"])
        y_offset == ParseFloat(h["YOFF"])
        y_zero == ParseFloat(h["YZERO"])
    IN  [k \in 1..Len(values) |-> Scale(values[k], y_offset, y_mult, y_zero)]

\* line 155: the answer to "select:<source>?" starts with "0"
ChannelOff(reply) == reply = "0"

(***************************************************************************)
(* Oscilloscope.get_data over VISA: get_data_visa consuming the generator  *)
(* _get_data_visa.  One action is one iteration of the generator together  *)
(* with the body of the for loop of get_data_visa that consumes its yield. *)
(***************************************************************************)
\* lines 143-152 with lower_bound = upper_bound = None
SelectSource(i, source) == [source |-> source, start |-> 1, stop |-> RecordLength(i)]

\* lines 187-188: wf[ch_name] = ch_data; wf["header"] = ch_header
Insert(w, ch_name, ch_data, ch_header) ==
    SetItem(SetItem(w, ch_name, ch_data), "header", ch_header)

Source == channels[idx + 1]

SourceHeader == GetHeader(HeaderReply(inst, Source))

Yield(ret_val) ==
    /\ scope' = SelectSource(inst, Source)
    /\ yielded' = Append(yielded, [name |-> Source, samples |-> ret_val, header |-> SourceHeader])
    /\ wf' = Insert(wf, Source, ret_val, SourceHeader)
    /\ idx' = idx + 1
    /\ UNCHANGED <<use_serial, channels, pc, inst, data, result, raised, idnQueries,
                   requests, parseCalls>>

\* lines 183-185: a new collection, one "*IDN?" query, no channel asked for
GetDataVisa ==
    /\ pc = "idle"
    /\ use_serial
    /\ wf' = [WaveformCollection EXCEPT !.idn = inst.idn]
    /\ idnQueries' = idnQueries + 1
    /\ pc' = IF channels = <<>> THEN "returned" ELSE "visa"
    /\ result' = IF channels = <<>> THEN wf' ELSE result
    /\ UNCHANGED <<use_serial, channels, idx, inst, scope, data, raised, yielded,
                   binQuery, requests, parseCalls>>
    /\ UNCHANGED <<mergeVars, parseVars>>

\* lines 155-157: the channel is off; `return` ends the generator, the for loop of
\* get_data_visa ends with it and wf is returned as it is
VisaChannelOff ==
    /\ pc = "visa"
    /\ idx < Len(channels)
    /\ ChannelOff(SelectReply(inst, Source))
    /\ scope' = SelectSource(inst, Source)
    /\ pc' = "returned"
    /\ result' = wf
    /\ UNCHANGED <<use_serial, channels, idx, inst, wf, data, raised, yielded,
                   idnQueries, binQuery, requests, parseCalls>>
    /\ UNCHANGED <<mergeVars, parseVars>>

\* lines 162-167 and 175
VisaYieldAscii ==
    /\ pc = "visa"
    /\ idx < Len(channels)
    /\ ~ChannelOff(SelectReply(inst, Source))
    /\ SourceHeader["ENCDG"] = "ASCII"
    /\ Yield(DecodeAscii(SourceHeader, CurveText(Window(inst, SelectSource(inst, Source)))))
    /\ UNCHANGED binQuery
    /\ UNCHANGED <<mergeVars, parseVars>>

\* lines 168-175, the format is in the table
VisaYieldBinary ==
    /\ pc = "visa"
    /\ idx < Len(channels)
    /\ ~ChannelOff(SelectReply(inst, Source))
    /\ SourceHeader["ENCDG"] = "BINARY"
    /\ FormatLookup(SourceHeader["BYT_NR"], SourceHeader["BN_FMT"]).exc = ""
    /\ binQuery' = [datatype |-> FormatLookup(SourceHeader["BYT_NR"], SourceHeader["BN_FMT"]).fmt,
                    is_big_endian |-> IsBigEndian(SourceHeader)]
    /\ Yield(DecodeBinary(SourceHeader, Window(inst, SelectSource(inst, Source))))
    /\ UNCHANGED <<mergeVars, parseVars>>

\* line 169 raises: the exception leaves the generator, get_data_visa and get_data
VisaKeyError ==
    /\ pc = "visa"
    /\ idx < Len(channels)
    /\ ~ChannelOff(SelectReply(inst, Source))
    /\ SourceHeader["ENCDG"] = "BINARY"
    /\ FormatLookup(SourceHeader["BYT_NR"], SourceHeader["BN_FMT"]).exc # ""
    /\ scope' = SelectSource(inst, Source)
    /\ pc' = "raised"
    /\ raised' = FormatLookup(SourceHeader["BYT_NR"], SourceHeader["BN_FMT"]).exc
    /\ UNCHANGED <<use_serial, channels, idx, inst, wf, data, result, yielded,
                   idnQueries, binQuery, requests, parseCalls>>
    /\ UNCHANGED <<mergeVars, parseVars>>

\* lines 161 and 175: ENCDG is neither "ASCII" nor "BINARY", ret_val stays []
VisaYieldUndecoded ==
    /\ pc = "visa"
    /\ idx < Len(channels)
    /\ ~ChannelOff(SelectReply(inst, Source))
    /\ SourceHeader["ENCDG"] \notin {"ASCII", "BINARY"}
    /\ Yield(<<>>)
    /\ UNCHANGED binQuery
    /\ UNCHANGED <<mergeVars, parseVars>>

\* the generator is exhausted: line 189
VisaReturn ==
    /\ pc = "visa"
    /\ idx = Len(channels)
    /\ pc' = "returned"
    /\ result' = wf
    /\ UNCHANGED <<use_serial, channels, idx, inst, scope, wf, data, raised, yielded,
                   idnQueries, binQuery, requests, parseCalls>>
    /\ UNCHANGED <<mergeVars, parseVars>>

(***************************************************************************)
(* Oscilloscope.get_data over HTTP: get_data_http, make_post, make_request *)
(* and parse_response.  One action is one iteration of the for loop.       *)
(***************************************************************************)
Upper == ("CH1" :> "CH1") @@ ("CH2" :> "CH2") @@ ("ch1" :> "CH1") @@ ("ch2" :> "CH2")

Lower == ("CH1" :> "ch1") @@ ("CH2" :> "ch2") @@ ("ch1" :> "ch1") @@ ("ch2" :> "ch2")

\* make_post
MakePost(ch) ==
    [WFMFILENAME |-> Upper[ch],
     WFMFILEEXT |-> "csv",
     command |-> "select:control " \o Lower[ch],
     command1 |-> "save:waveform:fileformat spreadsheet",
     wfmsend |-> "Get"]

\* the status lines the web server may answer with
StatusLines ==
    { [status_code |-> 200, reason |-> "OK"],
      [status_code |-> 200, reason |-> "Success"],
      [status_code |-> 204, reason |-> "No Content"],
      [status_code |-> 404, reason |-> "Not Found"],
      [status_code |-> 500, reason |-> "Internal Server Error"] }

\* the spreadsheet export of the waveform the POST selects, and an export without
\* data rows
RECURSIVE ExportRows(_, _)
ExportRows(points, t) ==
    IF points = <<>> THEN <<>>
    ELSE << <<ToString(t), ",", ToString(points[1])>> >> \o ExportRows(Tail(points), t + 1)

ExportTexts(i, post) ==
    LET top == << <<"Model", ",", "MDO3024">>, <<"Label", ",">>,
                  <<"TIME", ",", post.WFMFILENAME>> >>
    IN  { [lines |-> top \o ExportRows(i.raw[post.WFMFILENAME], 0)],
          [lines |-> top] }

\* requests.Response.raise_for_status raises for the 4xx and 5xx codes
RaisesForStatus(r) == 400 <= r.status_code /\ r.status_code < 600

\* line 85
IsOk(r) == r.status_code = 200 /\ r.reason = "OK"

\* lines 85-88: the body, or None (after the print) when the function falls off its end
BodyReturned(r, text) == IF IsOk(r) THEN text ELSE None

Ch == channels[idx + 1]

Sent(r) == Append(requests, [post |-> MakePost(Ch), status_code |-> r.status_code,
                             reason |-> r.reason])

\* lines 124-127: data = parsed, or data += parsed
Fold(d, w) == IF d = None THEN [exc |-> "", val |-> w] ELSE Add(d, w)

\* lines 122-123 and 128 when there is no channel: data is None and is returned
GetDataHttp ==
    /\ pc = "idle"
    /\ ~use_serial
    /\ data' = None
    /\ pc' = IF channels = <<>> THEN "returned" ELSE "http"
    /\ result' = IF channels = <<>> THEN data' ELSE result
    /\ UNCHANGED <<use_serial, channels, idx, inst, scope, wf, raised, yielded,
                   idnQueries, binQuery, requests, parseCalls>>
    /\ UNCHANGED <<mergeVars, parseVars>>

\* line 83 raises
HttpStatusError ==
    /\ pc = "http"
    /\ idx < Len(channels)
    /\ \E r \in StatusLines :
          /\ RaisesForStatus(r)
          /\ requests' = Sent(r)
    /\ pc' = "raised"
    /\ raised' = "HTTPError"
    /\ UNCHANGED <<use_serial, channels, idx, inst, scope, wf, data, result, yielded,
                   idnQueries, binQuery, parseCalls>>
    /\ UNCHANGED <<mergeVars, parseVars>>

\* lines 125/127: make_request returns, parse_response is called with what it
\* returned, and its collection is folded into data
HttpFetch ==
    /\ pc = "http"
    /\ idx < Len(channels)
    /\ \E r \in StatusLines : \E text \in ExportTexts(inst, MakePost(Ch)) :
          LET arg == BodyReturned(r, text)
              p == ParseResponse(arg)
              f == Fold(data, p.val)
          IN  /\ ~RaisesForStatus(r)
              /\ requests' = Sent(r)
              /\ parseCalls' = Append(parseCalls, arg)
              /\ IF p.exc # ""
                 THEN /\ pc' = "raised" /\ raised' = p.exc /\ UNCHANGED <<data, idx>>
                 ELSE IF f.exc # ""
                      THEN /\ pc' = "raised" /\ raised' = f.exc /\ UNCHANGED <<data, idx>>
                      ELSE /\ data' = f.val /\ idx' = idx + 1 /\ UNCHANGED <<pc, raised>>
    /\ UNCHANGED <<use_serial, channels, inst, scope, wf, result, yielded,
                   idnQueries, binQuery>>
    /\ UNCHANGED <<mergeVars, parseVars>>

\* line 128
HttpReturn ==
    /\ pc = "http"
    /\ idx = Len(channels)
    /\ pc' = "returned"
    /\ result' = data
    /\ UNCHANGED <<use_serial, channels, idx, inst, scope, wf, data, raised, yielded,
                   idnQueries, binQuery, requests, parseCalls>>
    /\ UNCHANGED <<mergeVars, parseVars>>

(***************************************************************************)
(* Spec: one call of get_data on an Oscilloscope as constructed.           *)
(***************************************************************************)
AcqIdle ==
    /\ use_serial = TRUE
    /\ channels = <<>>
    /\ pc = "unused"
    /\ idx = 0
    /\ inst = None
    /\ scope = None
    /\ wf = None
    /\ data = None
    /\ result = None
    /\ raised = ""
    /\ yielded = <<>>
    /\ idnQueries = 0
    /\ binQuery = None
    /\ requests = <<>>
    /\ parseCalls = <<>>

InitAcq ==
    /\ use_serial \in BOOLEAN
    /\ channels \in SeqsUpTo(Names, MaxChannels)
    /\ pc = "idle"
    /\ idx = 0
    /\ inst \in (IF use_serial THEN Instruments ELSE HttpInstruments)
    /\ scope = [source |-> "CH1", start |-> 1, stop |-> 1]
    /\ wf = None
    /\ data = None
    /\ result = None
    /\ raised = ""
    /\ yielded = <<>>
    /\ idnQueries = 0
    /\ binQuery = None
    /\ requests = <<>>
    /\ parseCalls = <<>>

Init == InitAcq /\ MergeIdle /\ ParseIdle

Next ==
    \/ GetDataVisa
    \/ VisaChannelOff
    \/ VisaYieldAscii
    \/ VisaYieldBinary
    \/ VisaKeyError
    \/ VisaYieldUndecoded
    \/ VisaReturn
    \/ GetDataHttp
    \/ HttpStatusError
    \/ HttpFetch
    \/ HttpReturn

Spec == Init /\ [][Next]_vars

InitMergeSpec == AcqIdle /\ InitMerge /\ ParseIdle

NextMerge ==
    \/ EvalAB
    \/ EvalBA
    \/ EvalLeft
    \/ EvalRight

SpecMerge == InitMergeSpec /\ [][NextMerge]_vars

InitParseSpec == AcqIdle /\ MergeIdle /\ InitParse

NextParse ==
    \/ ReadPreambleLine
    \/ ReadLabelRow
    \/ ReadTable

SpecParse == InitParseSpec /\ [][NextParse]_vars

(***************************************************************************)
(* Properties of get_data over VISA (checked under Spec).                  *)
(***************************************************************************)
Requested == {channels[i] : i \in 1..Len(channels)}

\* C1: a VISA acquisition that returns holds, for every requested channel the
\* instrument reports off, that channel mapped to the empty sample sequence, and
\* a populated header.
C1_DisabledChannelEmptyWithHeader ==
    (pc = "returned" /\ use_serial) =>
        \A i \in 1..Len(channels) :
            ~inst.enabled[channels[i]] =>
                /\ channels[i] \in Sources(result)
                /\ result.data[channels[i]] = <<>>
                /\ result.header # EmptyDict

\* C2: when a VISA acquisition returns, _get_data_visa has yielded exactly one
\* triple per requested channel, in request order, and the sources of the
\* collection are the distinct requested channel names.
C2_OneTriplePerChannel ==
    (pc = "returned" /\ use_serial) =>
        /\ Len(yielded) = Len(channels)
        /\ \A i \in 1..Len(yielded) : yielded[i].name = channels[i]
        /\ Sources(result) = Requested

\* C7: a VISA acquisition queries the identity once, and for a non-empty request
\* list the header of the returned collection is the header of the last
\* requested channel.
C7_LastChannelHeader ==
    (pc = "returned" /\ use_serial) =>
        /\ idnQueries = 1
        /\ channels # <<>> =>
              result.header = GetHeader(HeaderReply(inst, channels[Len(channels)]))

\* C9: every triple yielded for a channel in ASCII or BINARY encoding holds as
\* many samples as the channel has raw points, in the same order, each equal to
\* (raw - YOFF) * YMULT + YZERO.
C9_AffineTransform ==
    \A t \in 1..Len(yielded) :
        inst.format.encdg \in {"ASCII", "BINARY"} =>
            LET points == inst.raw[yielded[t].name]
                k == inst.calib
            IN  /\ Len(yielded[t].samples) = Len(points)
                /\ \A n \in 1..Len(points) :
                      yielded[t].samples[n] = ((points[n] - k.yoff) * k.ymult) + k.yzero

\* C9 witness: YMULT 2, YOFF 10, YZERO 1 and the ASCII curve 10,20,30 decoded to
\* 1, 21, 41.
C9_Witness ==
    /\ pc # "unused"
    /\ inst.format.encdg = "ASCII"
    /\ inst.calib = [ymult |-> 2, yoff |-> 10, yzero |-> 1]
    /\ \E t \in 1..Len(yielded) :
          /\ inst.raw[yielded[t].name] = <<10, 20, 30>>
          /\ yielded[t].samples = <<1, 21, 41>>

\* the decode table of the specification: byte width, format code, element type
DecodeTable ==
    { <<"1", "RI", "b">>, <<"1", "RP", "B">>,
      <<"2", "RI", "h">>, <<"2", "RP", "H">>,
      <<"4", "RI", "i">>, <<"4", "RP", "I">>, <<"4", "FP", "f">>,
      <<"8", "RI", "q">>, <<"8", "RP", "Q">>, <<"8", "FP", "d">> }

TablePairs == {<<t[1], t[2]>> : t \in DecodeTable}

DefinedPairs == {p \in Widths \X Codes : FormatLookup(p[1], p[2]).exc = ""}

\* what the claim says of a call on an instrument in BINARY encoding: with a pair
\* of the table every yield follows a binary query in the table's format,
\* big-endian exactly when BYT_OR is "MSB"; with any other pair nothing is ever
\* yielded, the call raises KeyError as soon as an enabled channel is fetched,
\* and it returns only if no enabled channel was fetched
BinaryFetch ==
    (pc # "unused" /\ inst.format.encdg = "BINARY") =>
        LET f == inst.format
        IN  IF <<f.byt_nr, f.bn_fmt>> \in TablePairs
            THEN /\ raised = ""
                 /\ yielded # <<>> =>
                       /\ <<f.byt_nr, f.bn_fmt, binQuery.datatype>> \in DecodeTable
                       /\ binQuery.is_big_endian <=> (f.byt_or = "MSB")
            ELSE /\ yielded = <<>>
                 /\ pc = "raised" => raised = "KeyError"
                 /\ pc = "returned" => (channels = <<>> \/ ~inst.enabled[channels[1]])

\* C10 as amended: the decode format is defined for exactly the 10 pairs of the
\* table; a BINARY channel that is decoded is queried in the table's format,
\* big-endian exactly when BYT_OR is "MSB"; for every other pair the fetch
\* raises and yields no samples.
C10_TenFormats ==
    /\ DefinedPairs = TablePairs
    /\ Cardinality(DefinedPairs) = 10
    /\ BinaryFetch

\* C10 as stated: the same with 14 pairs in the table.
C10_FourteenFormats ==
    /\ DefinedPairs = TablePairs
    /\ Cardinality(DefinedPairs) = 14
    /\ BinaryFetch

\* C10 witness: an enabled BINARY channel of width 1 in format FP has made the
\* call raise KeyError.
C10_Witness ==
    /\ pc = "raised"
    /\ raised = "KeyError"
    /\ inst.format.byt_nr = "1"
    /\ inst.format.bn_fmt = "FP"
    /\ yielded = <<>>

(***************************************************************************)
(* Properties of get_data in both modes and over HTTP (checked under Spec).*)
(***************************************************************************)
\* C5: whatever get_data returns is a WaveformCollection, and for the empty
\* channel list it is a collection without sources.
C5_ReturnsCollection ==
    pc = "returned" =>
        /\ result.type = "WaveformCollection"
        /\ channels = <<>> => Sources(result) = {}

\* C6: once a request was answered with anything but 200 OK, get_data has raised
\* at that request, has returned nothing, sent no later request, and never
\* called parse_response with the missing body.
C6_NonOkAborts ==
    \A i \in 1..Len(requests) :
        ~IsOk(requests[i]) =>
            /\ pc = "raised"
            /\ i = Len(requests)
            /\ result = None
            /\ \A j \in 1..Len(parseCalls) : parseCalls[j] # None

(***************************************************************************)
(* Properties of WaveformCollection.__add__ (checked under SpecMerge).     *)
(***************************************************************************)
\* C3: a + b succeeds exactly when the idn values are equal and otherwise raises
\* the incompatible-merge error; on success the header has the keys of both
\* with b's value on every key of b, and the channels are those of both with
\* b's dataset on every channel of b.
C3_MergeUnion ==
    op = "a+b" =>
        /\ (res.exc = "") <=> (a.idn = b.idn)
        /\ res.exc # "" => (res.exc = "AttributeError" /\ res.val = None)
        /\ res.exc = "" =>
              /\ DOMAIN res.val.header = (DOMAIN a.header) \cup (DOMAIN b.header)
              /\ \A k \in DOMAIN b.header : res.val.header[k] = b.header[k]
              /\ \A k \in (DOMAIN a.header) \ (DOMAIN b.header) :
                    res.val.header[k] = a.header[k]
              /\ Sources(res.val) = Sources(a) \cup Sources(b)
              /\ \A n \in Sources(b) : res.val.data[n] = b.data[n]
              /\ \A n \in Sources(a) \ Sources(b) : res.val.data[n] = a.data[n]

\* C3 witness: two collections with empty idn merged, colliding on a header key
\* and on a channel, a holding a key and a channel that b lacks.
C3_Witness ==
    /\ op = "a+b"
    /\ res.exc = ""
    /\ a.idn = ""
    /\ \E k \in (DOMAIN a.header) \cap (DOMAIN b.header) : a.header[k] # b.header[k]
    /\ \E n \in Sources(a) \cap Sources(b) : a.data[n] # b.data[n]
    /\ (DOMAIN a.header) \ (DOMAIN b.header) # {}
    /\ Sources(a) \ Sources(b) # {}

Associative ==
    (op = "(a+b)+c" /\ a.idn = b.idn /\ b.idn = c.idn) =>
        /\ res.exc = ""
        /\ AddRight(a, b, c).exc = ""
        /\ res.val.data = AddRight(a, b, c).val.data

Fields(i) == Words(Readline(data_string, i - 1))

Blank(i) == Strip(Readline(data_string, i - 1)) = <<>>

PreambleSentinels == {i \in 1..MaxPreambleLines : Fields(i)[1] = "Label"}

\* the line the preamble ends at: the first sentinel, or the line after the
\* 21st when there is none
PreambleEnd ==
    IF PreambleSentinels = {}
    THEN MaxPreambleLines + 1
    ELSE CHOOSE i \in PreambleSentinels : \A j \in PreambleSentinels : i <= j

====
